---- MODULE Spec2Model ----
(***************************************************************************)
(* FavourPro (astrbot_plugin_favourpro, main.py): the state store          *)
(* FavourProManager and the handlers of FavourProPlugin.                   *)
(*                                                                         *)
(* A Python str is a sequence of tokens: each label of the marker block    *)
(* ("Favour:", "Attitude:", "Relationship:") is one token, every other     *)
(* token is one character.  No pattern of the program can match inside a   *)
(* label, so matching token by token is matching character by character.   *)
(***************************************************************************)
EXTENDS Integers, Sequences, FiniteSets, TLC

VARIABLES
    heap,            \* the dicts alive: heap[r] is the dict with reference r
    user_data,       \* FavourProManager.user_data: (key, reference), in order
    disk,            \* content of user_data.json: (key, record), in order
    DEFAULT_STATE,   \* FavourProManager.DEFAULT_STATE
    session_based,   \* config["session_based"]
    held,            \* the dict a caller of the manager holds (object id, 0: none)
    original_text,   \* the text on_llm_resp was given
    completion_text, \* resp.completion_text when on_llm_resp returned
    turn,            \* "pending" until on_llm_resp has run, then "done"
    last,            \* the last operation run, its arguments and what it returned
    nops             \* how many operations have run

vars == <<heap, user_data, disk, DEFAULT_STATE, session_based, held,
          original_text, completion_text, turn, last, nops>>

(***************************************************************************)
(* Python strings and the re module                                        *)
(***************************************************************************)
NL == "\n"
FWComma == "fwcomma"        \* the full-width comma of attitude_pattern
FavourLabel == "Favour:"
AttitudeLabel == "Attitude:"
RelationshipLabel == "Relationship:"
Labels == {FavourLabel, AttitudeLabel, RelationshipLabel}
DigitTokens == <<"0", "1", "2", "3", "4", "5", "6", "7", "8", "9">>

SetMin(S) == CHOOSE x \in S : \A y \in S : x <= y
SetMax(S) == CHOOSE x \in S : \A y \in S : y <= x

\* \s and \d of re, str.isspace
IsSpace(t) == t \in {" ", NL}
IsDigit(t) == \E i \in 1..10 : DigitTokens[i] = t
DigitVal(t) == (CHOOSE i \in 1..10 : DigitTokens[i] = t) - 1

\* A match object: the span matched, as offsets (tokens consumed before it
\* starts, tokens consumed when it ends); found = FALSE is None.
NoMatch == [found |-> FALSE, start |-> 0, end |-> 0]
Match(s, e) == [found |-> TRUE, start |-> s, end |-> e]
Group(text, m) == SubSeq(text, m.start + 1, m.end)

\* how many tokens \s* takes, greedily, from offset p
SpaceRun(text, p) ==
    SetMax({k \in 0..(Len(text) - p) : \A j \in 1..k : IsSpace(text[p + j])})
\* how many tokens \d+ takes from offset p
DigitRun(text, p) ==
    SetMax({k \in 0..(Len(text) - p) : \A j \in 1..k : IsDigit(text[p + j])})
TokenAt(text, p, t) == p + 1 <= Len(text) /\ text[p + 1] = t
LabelAt(text, p) == p + 1 <= Len(text) /\ text[p + 1] \in Labels

\* `$` without re.MULTILINE: at the end of the string, and just before a
\* newline that ends the string
EndAnchor(text, p) ==
    \/ p = Len(text)
    \/ p = Len(text) - 1 /\ text[Len(text)] = NL

\* The pattern the author meant, \[\s*(?:Favour:|Attitude:|Relationship:).*?\]
\* with re.DOTALL: the block runs from "[" to the first "]" after the label.
bracket_block_search(text) ==
    LET n == Len(text)
        LabelOff(p) == p + 1 + SpaceRun(text, p + 1)
        Ends(p) == {e \in (LabelOff(p) + 2)..n : text[e] = "]"}
        Starts == {p \in 0..(n - 1) :
                     /\ text[p + 1] = "["
                     /\ LabelAt(text, LabelOff(p))
                     /\ Ends(p) # {}}
    IN IF Starts = {} THEN NoMatch
       ELSE Match(SetMin(Starts), SetMin(Ends(SetMin(Starts))))

\* block_pattern with the opening delimiter left out:
\* (?:Favour:|Attitude:|Relationship:).*?\] with re.DOTALL
unopened_block_search(text) ==
    LET n == Len(text)
        Ends(p) == {e \in (p + 2)..n : text[e] = "]"}
        Starts == {p \in 0..(n - 1) : LabelAt(text, p) /\ Ends(p) # {}}
    IN IF Starts = {} THEN NoMatch
       ELSE Match(SetMin(Starts), SetMin(Ends(SetMin(Starts))))

\* block_pattern.search: $$\s*(?:Favour:|Attitude:|Relationship:).*?$$ with
\* re.DOTALL.  Both delimiters are the anchor `$`, twice.
block_pattern_search(text) ==
    LET n == Len(text)
        LabelOff(p) == p + SpaceRun(text, p)
        Ends(p) == {e \in (LabelOff(p) + 1)..n : EndAnchor(text, e)}
        Starts == {p \in 0..n :
                     /\ EndAnchor(text, p)
                     /\ LabelAt(text, LabelOff(p))
                     /\ Ends(p) # {}}
    IN IF Starts = {} THEN NoMatch
       ELSE Match(SetMin(Starts), SetMin(Ends(SetMin(Starts))))

\* favour_pattern.search: Favour:\s*(-?\d+); the match is group 1
favour_pattern_search(text) ==
    LET n == Len(text)
        ValOff(p) == p + 1 + SpaceRun(text, p + 1)
        DigOff(p) == IF TokenAt(text, ValOff(p), "-") THEN ValOff(p) + 1
                     ELSE ValOff(p)
        Starts == {p \in 0..(n - 1) :
                     /\ text[p + 1] = FavourLabel
                     /\ DigitRun(text, DigOff(p)) >= 1}
    IN IF Starts = {} THEN NoMatch
       ELSE LET p == SetMin(Starts)
            IN Match(ValOff(p), DigOff(p) + DigitRun(text, DigOff(p)))

\* (?=\s*[,，]\s*Relationship:|\]) at offset e
attitude_lookahead(text, e) ==
    \/ TokenAt(text, e, "]")
    \/ LET c == e + SpaceRun(text, e)
       IN /\ (TokenAt(text, c, ",") \/ TokenAt(text, c, FWComma))
          /\ TokenAt(text, c + 1 + SpaceRun(text, c + 1), RelationshipLabel)

\* (?=\s*\]) at offset e
relationship_lookahead(text, e) == TokenAt(text, e + SpaceRun(text, e), "]")

\* label\s*(.+?)(?=...): \s* is greedy and gives tokens back, .+? is lazy and
\* `.` matches no newline; the match is group 1.  look[e] is the lookahead
\* at offset e.
lazy_value_search(text, label, look) ==
    LET n == Len(text)
        GroupEnds(g) == {e \in (g + 1)..n :
                           /\ \A i \in (g + 1)..e : text[i] # NL
                           /\ look[e]}
        Skips(p) == {k \in 0..SpaceRun(text, p + 1) : GroupEnds(p + 1 + k) # {}}
        Starts == {p \in 0..(n - 1) : text[p + 1] = label /\ Skips(p) # {}}
    IN IF Starts = {} THEN NoMatch
       ELSE LET p == SetMin(Starts)
                g == p + 1 + SetMax(Skips(p))
            IN Match(g, SetMin(GroupEnds(g)))

attitude_pattern_search(text) ==
    lazy_value_search(text, AttitudeLabel,
                      [e \in 0..Len(text) |-> attitude_lookahead(text, e)])

relationship_pattern_search(text) ==
    lazy_value_search(text, RelationshipLabel,
                      [e \in 0..Len(text) |-> relationship_lookahead(text, e)])

\* str.strip(chars)
StripSet(s, chars) ==
    LET Keep == {i \in 1..Len(s) : s[i] \notin chars}
    IN IF Keep = {} THEN <<>> ELSE SubSeq(s, SetMin(Keep), SetMax(Keep))

\* str.strip()
Strip(s) == StripSet(s, {" ", NL})

\* str.replace(old, ""), old not empty: every occurrence, left to right
RECURSIVE Remove(_, _)
Remove(s, old) ==
    IF Len(s) < Len(old) THEN s
    ELSE IF SubSeq(s, 1, Len(old)) = old
         THEN Remove(SubSeq(s, Len(old) + 1, Len(s)), old)
         ELSE <<s[1]>> \o Remove(Tail(s), old)

\* the value of a run of digits
RECURSIVE DigitsValue(_)
DigitsValue(s) ==
    IF s = <<>> THEN 0
    ELSE 10 * DigitsValue(SubSeq(s, 1, Len(s) - 1)) + DigitVal(s[Len(s)])

\* int(str): surrounding whitespace is dropped, then an optional sign and
\* digits; anything else raises ValueError (ok = FALSE)
IntOfStr(s) ==
    LET t == Strip(s)
        signed == t # <<>> /\ t[1] \in {"-", "+"}
        d == IF signed THEN Tail(t) ELSE t
    IN IF d # <<>> /\ \A i \in 1..Len(d) : IsDigit(d[i])
       THEN [ok |-> TRUE,
             n |-> IF signed /\ t[1] = "-" THEN 0 - DigitsValue(d) ELSE DigitsValue(d)]
       ELSE [ok |-> FALSE, n |-> 0]

(***************************************************************************)
(* Python values and the dicts of the store                                *)
(***************************************************************************)
\* A value of a record's field: an int, a str, or no such key in the dict.
IntVal(n) == [k |-> "int", n |-> n, s |-> <<>>]
StrVal(s) == [k |-> "str", n |-> 0, s |-> s]
Missing == [k |-> "missing", n |-> 0, s |-> <<>>]
NoRecord == [favour |-> Missing, attitude |-> Missing, relationship |-> Missing]

\* int(v): an int is itself, a str is parsed
PyInt(v) == IF v.k = "int" THEN [ok |-> TRUE, n |-> v.n] ELSE IntOfStr(v.s)

\* the class attribute as the class statement leaves it
DEFAULT_STATE_literal ==
    [favour |-> IntVal(20), attitude |-> StrVal(<<"neutral">>),
     relationship |-> StrVal(<<"stranger">>)]

\* The objects of the program: m.heap[r] is the dict with reference r,
\* m.ud is user_data in insertion order (key, reference), m.disk the content
\* of user_data.json, m.held the dict a caller of the manager holds.
Machine(h, ud, d, hd) == [heap |-> h, ud |-> ud, disk |-> d, held |-> hd]
Current == Machine(heap, user_data, disk, held)

IndexOfKey(ud, key) ==
    IF \E i \in 1..Len(ud) : ud[i].key = key
    THEN CHOOSE i \in 1..Len(ud) : ud[i].key = key
    ELSE 0
HasKey(ud, key) == IndexOfKey(ud, key) # 0
RefOf(ud, key) == ud[IndexOfKey(ud, key)].ref
\* user_data[key] = ref: a new key goes last, a present key keeps its place
DictSet(ud, key, ref) ==
    IF HasKey(ud, key) THEN [ud EXCEPT ![IndexOfKey(ud, key)].ref = ref]
    ELSE Append(ud, [key |-> key, ref |-> ref])

\* f"{session_id}_{user_id}" if session_id else user_id; <<>> is None
KeyOf(user_id, session_id) ==
    IF session_id # <<>> THEN session_id \o <<"_">> \o user_id ELSE user_id

\* json.dump(self.user_data, f) and json.load(f): ints and strs come back as
\* written, in the order written
Dump(ud, h) == [i \in 1..Len(ud) |-> [key |-> ud[i].key, rec |-> h[ud[i].ref]]]

\* _save_data that does not reach the file
save_data_lost(m) == m

\* FavourProManager._save_data
save_data(m) == [m EXCEPT !.disk = Dump(m.ud, m.heap)]

\* FavourProManager._load_data: every record of the file is a new dict
load_data(d) ==
    [heap |-> [i \in 1..Len(d) |-> d[i].rec],
     ud |-> [i \in 1..Len(d) |-> [key |-> d[i].key, ref |-> i]]]

\* get_user_state answering an absent key with the defaults of the class
\* statement, whatever the configuration set
get_user_state_class_default(m, user_id, session_id) ==
    LET key == KeyOf(user_id, session_id)
    IN IF HasKey(m.ud, key)
       THEN [m |-> m, ref |-> RefOf(m.ud, key)]
       ELSE [m |-> [m EXCEPT !.heap = Append(m.heap, DEFAULT_STATE_literal)],
             ref |-> Len(m.heap) + 1]

\* FavourProManager.get_user_state: the stored dict itself, or a copy of
\* DEFAULT_STATE
get_user_state(m, user_id, session_id) ==
    LET key == KeyOf(user_id, session_id)
    IN IF HasKey(m.ud, key)
       THEN [m |-> m, ref |-> RefOf(m.ud, key)]
       ELSE [m |-> [m EXCEPT !.heap = Append(m.heap, DEFAULT_STATE)],
             ref |-> Len(m.heap) + 1]

\* update_user_state without the coercion of favour
update_user_state_uncoerced(m, user_id, ref, session_id) ==
    save_data([m EXCEPT !.ud = DictSet(m.ud, KeyOf(user_id, session_id), ref)])

\* FavourProManager.update_user_state; new_state is the dict with reference ref
update_user_state(m, user_id, ref, session_id) ==
    LET key == KeyOf(user_id, session_id)
        fav == m.heap[ref].favour
        int == PyInt(fav)
        cur == get_user_state(m, user_id, session_id)
        curfav == IF cur.m.heap[cur.ref].favour.k # "missing"
                  THEN cur.m.heap[cur.ref].favour
                  ELSE DEFAULT_STATE.favour
        h1 == IF fav.k = "missing" THEN m.heap
              ELSE IF int.ok THEN [m.heap EXCEPT ![ref].favour = IntVal(int.n)]
              ELSE [m.heap EXCEPT ![ref].favour = curfav]
    IN save_data([m EXCEPT !.heap = h1, !.ud = DictSet(m.ud, key, ref)])

\* Dicts nothing refers to any more are dropped and the others are numbered
\* in the order user_data, then the caller, reaches them.
Normalize(m) ==
    LET rs == [i \in 1..Len(m.ud) |-> m.ud[i].ref]
              \o (IF m.held # 0 THEN <<m.held>> ELSE <<>>)
        First(r) == SetMin({i \in 1..Len(rs) : rs[i] = r})
        Firsts == {i \in 1..Len(rs) : First(rs[i]) = i}
        NewRef(r) == Cardinality({i \in Firsts : i <= First(r)})
        OldRef(j) == rs[CHOOSE i \in Firsts :
                          Cardinality({x \in Firsts : x <= i}) = j]
    IN [heap |-> [j \in 1..Cardinality(Firsts) |-> m.heap[OldRef(j)]],
        ud |-> [i \in 1..Len(m.ud) |->
                  [key |-> m.ud[i].key, ref |-> NewRef(m.ud[i].ref)]],
        disk |-> m.disk,
        held |-> IF m.held # 0 THEN NewRef(m.held) ELSE 0]

Commit(m) ==
    LET n == Normalize(m)
    IN /\ heap' = n.heap
       /\ user_data' = n.ud
       /\ disk' = n.disk
       /\ held' = n.held

\* what the operation that ran last was given and what it did
Log(op, user_id, session_id, arg, ret, wrote, reply) ==
    [op |-> op, user |-> user_id, session |-> session_id, arg |-> arg,
     ret |-> ret, wrote |-> wrote, reply |-> reply,
     role |-> "", typed |-> <<>>, listed |-> <<>>]
\* the log of a command: who sent it (event.role) and the argument as typed
By(log, role, typed) == [log EXCEPT !.role = role, !.typed = typed]

(***************************************************************************)
(* FavourProPlugin                                                         *)
(***************************************************************************)
StoreUnchanged == UNCHANGED <<heap, user_data, disk, held>>
TurnUnchanged == UNCHANGED <<original_text, completion_text, turn>>

\* FavourProPlugin._get_session_id; umo is event.unified_msg_origin
get_session_id(umo) == IF session_based THEN umo ELSE <<>>

\* _is_admin that lets every sender through
everyone_is_admin(role) == TRUE

\* FavourProPlugin._is_admin
is_admin(role) == role = "admin"

\* FavourProPlugin.on_llm_resp: text is resp.completion_text on entry, the
\* event is from user_id in umo
on_llm_resp(user_id, umo, text) ==
    LET session_id == get_session_id(umo)
        block_match == block_pattern_search(text)
        block_text == Group(text, block_match)
        cleaned_text == Strip(Remove(text, block_text))
        favour_match == favour_pattern_search(block_text)
        attitude_match == attitude_pattern_search(block_text)
        relationship_match == relationship_pattern_search(block_text)
        got == get_user_state(Current, user_id, session_id)
        cur0 == got.m.heap[got.ref]
        cur1 == IF favour_match.found
                THEN [cur0 EXCEPT !.favour =
                        IntVal(IntOfStr(Strip(Group(block_text, favour_match))).n)]
                ELSE cur0
        cur2 == IF attitude_match.found
                THEN [cur1 EXCEPT !.attitude =
                        StrVal(StripSet(Group(block_text, attitude_match), {" ", ","}))]
                ELSE cur1
        cur3 == IF relationship_match.found
                THEN [cur2 EXCEPT !.relationship =
                        StrVal(StripSet(Group(block_text, relationship_match), {" ", ","}))]
                ELSE cur2
        m1 == [got.m EXCEPT !.heap[got.ref] = cur3]
    IN /\ turn = "pending"
       /\ turn' = "done"
       /\ original_text' = text
       /\ UNCHANGED <<DEFAULT_STATE, session_based>>
       /\ IF ~block_match.found
          THEN /\ completion_text' = text
               /\ StoreUnchanged
               /\ last' = Log("on_llm_resp", user_id, session_id, NoRecord,
                              NoRecord, FALSE, "")
          ELSE /\ completion_text' = cleaned_text
               /\ IF ~(favour_match.found \/ attitude_match.found
                         \/ relationship_match.found)
                  THEN /\ StoreUnchanged
                       /\ last' = Log("on_llm_resp", user_id, session_id, NoRecord,
                                      NoRecord, FALSE, "")
                  ELSE /\ Commit(update_user_state(m1, user_id, got.ref, session_id))
                       /\ last' = Log("on_llm_resp", user_id, session_id, cur3,
                                      NoRecord, TRUE, "")

\* the three commands that set one field: get, assign, update
set_field(op, role, user_id, umo, field, value) ==
    LET uid == Strip(user_id)
        session_id == get_session_id(umo)
        got == get_user_state(Current, uid, session_id)
        m1 == [got.m EXCEPT !.heap[got.ref][field] = value]
    IN /\ UNCHANGED <<DEFAULT_STATE, session_based>>
       /\ TurnUnchanged
       /\ IF ~is_admin(role)
          THEN /\ StoreUnchanged
               /\ last' = By(Log(op, <<>>, <<>>, NoRecord, NoRecord, FALSE, "denied"),
                              role, <<>>)
          ELSE /\ Commit(update_user_state(m1, uid, got.ref, session_id))
               /\ last' = By(Log(op, uid, session_id, NoRecord, NoRecord, TRUE,
                                  "success"), role, <<>>)

\* FavourProPlugin.admin_set_favour; value is the argument as typed
admin_set_favour(role, user_id, value, umo) ==
    IF is_admin(role) /\ ~IntOfStr(value).ok
    THEN /\ UNCHANGED <<DEFAULT_STATE, session_based>>
         /\ TurnUnchanged
         /\ StoreUnchanged
         /\ last' = By(Log("admin_set_favour", <<>>, <<>>, NoRecord, NoRecord, FALSE,
                            "not an integer"), role, value)
    ELSE set_field("admin_set_favour", role, user_id, umo, "favour",
                   IntVal(IntOfStr(value).n))

\* FavourProPlugin.admin_set_attitude
admin_set_attitude(role, user_id, attitude, umo) ==
    set_field("admin_set_attitude", role, user_id, umo, "attitude",
              StrVal(Strip(attitude)))

\* FavourProPlugin.admin_set_relationship
admin_set_relationship(role, user_id, relationship, umo) ==
    set_field("admin_set_relationship", role, user_id, umo, "relationship",
              StrVal(Strip(relationship)))

\* FavourProPlugin.admin_reset_user_status
admin_reset_user_status(role, user_id, umo) ==
    LET uid == Strip(user_id)
        session_id == get_session_id(umo)
        m1 == [Current EXCEPT !.heap = Append(heap, DEFAULT_STATE)]
    IN /\ UNCHANGED <<DEFAULT_STATE, session_based>>
       /\ TurnUnchanged
       /\ IF ~is_admin(role)
          THEN /\ StoreUnchanged
               /\ last' = By(Log("admin_reset_user_status", <<>>, <<>>, NoRecord,
                                  NoRecord, FALSE, "denied"), role, <<>>)
          ELSE /\ Commit(update_user_state(m1, uid, Len(heap) + 1, session_id))
               /\ last' = By(Log("admin_reset_user_status", uid, session_id, NoRecord,
                                  NoRecord, TRUE, "success"), role, <<>>)

\* state.get('favour', 0) < 0; a str compared with 0 raises TypeError
FavourBelowZero(rec) ==
    IF rec.favour.k = "missing" THEN FALSE ELSE rec.favour.n < 0
FavourComparable(rec) == rec.favour.k \in {"int", "missing"}

\* FavourProPlugin.admin_reset_negative_favour
admin_reset_negative_favour(role) ==
    LET keys_to_reset == {i \in 1..Len(user_data) :
                            FavourBelowZero(heap[user_data[i].ref])}
        raises == \E i \in 1..Len(user_data) :
                      ~FavourComparable(heap[user_data[i].ref])
        \* each key gets a copy of DEFAULT_STATE of its own
        h1 == heap \o [i \in 1..Len(user_data) |-> DEFAULT_STATE]
        ud1 == [i \in 1..Len(user_data) |->
                  IF i \in keys_to_reset
                  THEN [key |-> user_data[i].key, ref |-> Len(heap) + i]
                  ELSE user_data[i]]
    IN /\ UNCHANGED <<DEFAULT_STATE, session_based>>
       /\ TurnUnchanged
       /\ IF ~is_admin(role)
          THEN /\ StoreUnchanged
               /\ last' = By(Log("admin_reset_negative_favour", <<>>, <<>>, NoRecord,
                                  NoRecord, FALSE, "denied"), role, <<>>)
          ELSE IF raises
          THEN /\ StoreUnchanged
               /\ last' = By(Log("admin_reset_negative_favour", <<>>, <<>>, NoRecord,
                                  NoRecord, FALSE, "TypeError"), role, <<>>)
          ELSE IF keys_to_reset = {}
          THEN /\ StoreUnchanged
               /\ last' = By(Log("admin_reset_negative_favour", <<>>, <<>>, NoRecord,
                                  NoRecord, FALSE, "none found"), role, <<>>)
          ELSE /\ Commit(save_data(Machine(h1, ud1, disk, held)))
               /\ last' = By(Log("admin_reset_negative_favour", <<>>, <<>>, NoRecord,
                                  NoRecord, TRUE, "success"), role, <<>>)

\* FavourProPlugin.admin_reset_all_users
admin_reset_all_users(role) ==
    /\ UNCHANGED <<DEFAULT_STATE, session_based>>
    /\ TurnUnchanged
    /\ IF ~is_admin(role)
       THEN /\ StoreUnchanged
            /\ last' = By(Log("admin_reset_all_users", <<>>, <<>>, NoRecord, NoRecord,
                               FALSE, "denied"), role, <<>>)
       ELSE /\ Commit(save_data(Machine(heap, <<>>, disk, held)))
            /\ last' = By(Log("admin_reset_all_users", <<>>, <<>>, NoRecord, NoRecord,
                               TRUE, "success"), role, <<>>)

\* FavourProPlugin.admin_query_status: the reply reads all three fields of
\* the dict get_user_state returned, a field that is not there raises KeyError
admin_query_status(role, user_id, umo) ==
    LET uid == Strip(user_id)
        session_id == get_session_id(umo)
        got == get_user_state(Current, uid, session_id)
        state == got.m.heap[got.ref]
        raises == \E f \in {"favour", "attitude", "relationship"} :
                      state[f].k = "missing"
    IN /\ UNCHANGED <<DEFAULT_STATE, session_based>>
       /\ TurnUnchanged
       /\ StoreUnchanged
       /\ last' = IF ~is_admin(role)
                  THEN By(Log("admin_query_status", <<>>, <<>>, NoRecord, NoRecord,
                              FALSE, "denied"), role, <<>>)
                  ELSE By(Log("admin_query_status", uid, session_id, NoRecord, state,
                              FALSE, IF raises THEN "KeyError" ELSE "status"),
                          role, <<>>)

\* the code points of the characters a favour held as str is made of
CharOrder ==
    <<"-", ".", "0", "1", "2", "3", "4", "5", "6", "7", "8", "9",
      "a", "b", "c", "d", "e", "f", "g", "h", "i", "j", "k", "l", "m",
      "n", "o", "p", "q", "r", "s", "t", "u", "v", "w", "x", "y", "z">>
Ord(t) == CHOOSE i \in 1..Len(CharOrder) : CharOrder[i] = t
\* str < str
StrLess(a, b) ==
    \E i \in 1..(Len(b)) :
        /\ \A j \in 1..(i - 1) : j <= Len(a) /\ a[j] = b[j]
        /\ \/ i = Len(a) + 1
           \/ i <= Len(a) /\ Ord(a[i]) < Ord(b[i])
\* a < b for the keys of the sort; an int and a str do not compare
PyComparable(a, b) == a.k = b.k
PyLess(a, b) == IF a.k = "int" THEN a.n < b.n ELSE StrLess(a.s, b.s)
\* item[1].get('favour', 0)
favour_key(rec) == IF rec.favour.k = "missing" THEN IntVal(0) ELSE rec.favour

\* sorted(items, key=favour_key, reverse=reverse): stable, and with reverse
\* the items that compare equal keep their order too
sorted_by_favour(items, reverse) ==
    LET n == Len(items)
        Key(i) == favour_key(items[i].rec)
        Less(i, j) == IF reverse THEN PyLess(Key(j), Key(i))
                      ELSE PyLess(Key(i), Key(j))
        Pos(i) == 1 + Cardinality({j \in 1..n :
                        \/ Less(j, i)
                        \/ ~Less(i, j) /\ ~Less(j, i) /\ j < i})
    IN [p \in 1..n |-> items[CHOOSE i \in 1..n : Pos(i) = p]]

\* admin_favour_ranking (reverse) and admin_negative_favour_ranking: num is
\* the count as typed
ranking(op, role, num, reverse) ==
    LET limit == IntOfStr(num)
        items == Dump(user_data, heap)
        type_error == \E i, j \in 1..Len(items) :
                          ~PyComparable(favour_key(items[i].rec),
                                        favour_key(items[j].rec))
        sorted_users == sorted_by_favour(items, reverse)
        shown == SubSeq(sorted_users, 1,
                        IF limit.n < Len(items) THEN limit.n ELSE Len(items))
        key_error == \E i \in 1..Len(shown) :
                         \E f \in {"favour", "attitude", "relationship"} :
                             shown[i].rec[f].k = "missing"
        reply == IF ~is_admin(role) THEN "denied"
                 ELSE IF ~limit.ok \/ limit.n <= 0 THEN "not a positive integer"
                 ELSE IF user_data = <<>> THEN "no data"
                 ELSE IF type_error THEN "TypeError"
                 ELSE IF key_error THEN "KeyError"
                 ELSE "ranking"
    IN /\ UNCHANGED <<DEFAULT_STATE, session_based>>
       /\ TurnUnchanged
       /\ StoreUnchanged
       /\ last' = [By(Log(op, <<>>, <<>>, NoRecord, NoRecord, FALSE, reply),
                      role, IF is_admin(role) THEN num ELSE <<>>)
                   EXCEPT !.listed = IF reply = "ranking" THEN shown ELSE <<>>]

\* FavourProPlugin.admin_favour_ranking
admin_favour_ranking(role, num) == ranking("admin_favour_ranking", role, num, TRUE)

\* FavourProPlugin.admin_negative_favour_ranking
admin_negative_favour_ranking(role, num) ==
    ranking("admin_negative_favour_ranking", role, num, FALSE)

\* FavourProPlugin.terminate
terminate ==
    /\ Commit(save_data(Current))
    /\ last' = Log("terminate", <<>>, <<>>, NoRecord, NoRecord, TRUE, "")
    /\ UNCHANGED <<DEFAULT_STATE, session_based>>
    /\ TurnUnchanged

\* FavourProPlugin.__init__: a new manager loads the file, then the defaults
\* the configuration gives replace those of the class.  reimport: the module
\* was loaded anew, DEFAULT_STATE is the literal again.
DefaultsFrom(base, config) ==
    [f \in {"favour", "attitude", "relationship"} |->
        IF config[f].k # "missing" THEN config[f] ELSE base[f]]
plugin_init(config, reimport) ==
    LET loaded == load_data(disk)
        kept == IF held # 0 THEN <<heap[held]>> ELSE <<>>
    IN /\ Commit(Machine(loaded.heap \o kept, loaded.ud, disk,
                         IF held # 0 THEN Len(loaded.heap) + 1 ELSE 0))
       /\ DEFAULT_STATE' = DefaultsFrom(IF reimport THEN DEFAULT_STATE_literal
                                        ELSE DEFAULT_STATE, config)
       /\ session_based' = config.session_based
       /\ TurnUnchanged
       /\ last' = Log("plugin_init", <<>>, <<>>, NoRecord, NoRecord, FALSE, "")

\* the configuration is reloaded while the plugin runs (session_based is read
\* from it on every call)
config_reload(value) ==
    /\ session_based' = value
    /\ session_based # value
    /\ UNCHANGED <<DEFAULT_STATE>>
    /\ StoreUnchanged
    /\ TurnUnchanged
    /\ last' = Log("config_reload", <<>>, <<>>, NoRecord, NoRecord, FALSE, "")

(***************************************************************************)
(* A caller of the manager: it gets a dict, assigns to it, puts it.        *)
(***************************************************************************)
\* state = manager.get_user_state(user_id, session_id)
caller_get(user_id, session_id) ==
    LET got == get_user_state(Current, user_id, session_id)
    IN /\ Commit([got.m EXCEPT !.held = got.ref])
       /\ last' = Log("get_user_state", user_id, session_id, NoRecord,
                      got.m.heap[got.ref], FALSE, "")
       /\ UNCHANGED <<DEFAULT_STATE, session_based>>
       /\ TurnUnchanged

\* state[field] = value
caller_assign(field, value) ==
    /\ held # 0
    /\ heap[held][field] # value
    /\ Commit([Current EXCEPT !.heap[held][field] = value])
    /\ last' = Log("assign", <<>>, <<>>, NoRecord, NoRecord, FALSE, field)
    /\ UNCHANGED <<DEFAULT_STATE, session_based>>
    /\ TurnUnchanged

\* manager.update_user_state(user_id, state, session_id)
caller_put(user_id, session_id) ==
    /\ held # 0
    /\ Commit(update_user_state(Current, user_id, held, session_id))
    /\ last' = Log("update_user_state", user_id, session_id, heap[held], NoRecord,
                   TRUE, "")
    /\ UNCHANGED <<DEFAULT_STATE, session_based>>
    /\ TurnUnchanged

(***************************************************************************)
(* The plugin: commands, configuration and callers of the manager          *)
(***************************************************************************)
MaxOps == 4
Users == {<<"u">>, <<"s", "_", "u">>}
Origins == {<<"s">>}
SessionIds == {<<>>} \cup Origins
Roles == {"admin", "member"}
FavourArgs == {<<"5">>, <<"-", "1">>, <<"x">>}
AttitudeArgs == {<<"b">>}
RelationshipArgs == {<<"q">>}
Configs ==
    [favour : {Missing, IntVal(50)}, attitude : {Missing}, relationship : {Missing},
     session_based : BOOLEAN]
CallerValues ==
    [favour |-> {StrVal(<<"7">>), StrVal(<<"x">>)}, attitude |-> {StrVal(<<"c">>)},
     relationship |-> {}]

Init ==
    /\ heap = <<>>
    /\ user_data = <<>>
    /\ disk = <<>>
    /\ \E config \in Configs :
          /\ DEFAULT_STATE = DefaultsFrom(DEFAULT_STATE_literal, config)
          /\ session_based = config.session_based
    /\ held = 0
    /\ original_text = <<>>
    /\ completion_text = <<>>
    /\ turn = "done"
    /\ last = Log("init", <<>>, <<>>, NoRecord, NoRecord, FALSE, "")
    /\ nops = 0

\* one more operation, while the run is shorter than MaxOps
Op(A) == nops < MaxOps /\ nops' = nops + 1 /\ A

SetFavour ==
    Op(\E r \in Roles, u \in Users, v \in FavourArgs, o \in Origins :
           admin_set_favour(r, u, v, o))
SetAttitude ==
    Op(\E r \in Roles, u \in Users, v \in AttitudeArgs, o \in Origins :
           admin_set_attitude(r, u, v, o))
SetRelationship ==
    Op(\E r \in Roles, u \in Users, v \in RelationshipArgs, o \in Origins :
           admin_set_relationship(r, u, v, o))
ResetUser ==
    Op(\E r \in Roles, u \in Users, o \in Origins : admin_reset_user_status(r, u, o))
ResetNegative == Op(\E r \in Roles : admin_reset_negative_favour(r))
ResetAll == Op(\E r \in Roles : admin_reset_all_users(r))
\* the plugin is constructed again; session_based changes through ConfigReload
Reload ==
    Op(\E config \in Configs, reimport \in BOOLEAN :
           config.session_based = session_based /\ plugin_init(config, reimport))
ConfigReload == Op(\E value \in BOOLEAN : config_reload(value))
CallerGet == Op(\E u \in Users, sid \in SessionIds : caller_get(u, sid))
CallerAssign ==
    Op(\E f \in {"favour", "attitude", "relationship"} :
           \E v \in CallerValues[f] : caller_assign(f, v))
CallerPut == Op(\E u \in Users, sid \in SessionIds : caller_put(u, sid))
Terminate == Op(terminate)

Next ==
    \/ SetFavour
    \/ SetAttitude
    \/ SetRelationship
    \/ ResetUser
    \/ ResetNegative
    \/ ResetAll
    \/ Reload
    \/ ConfigReload
    \/ CallerGet
    \/ CallerAssign
    \/ CallerPut
    \/ Terminate

Spec == Init /\ [][Next]_vars

(***************************************************************************)
(* One assistant turn: the text generated, the commands that ran before    *)
(* it, and on_llm_resp.                                                    *)
(***************************************************************************)
MaxFields == 2

FavourFields ==
    {<<FavourLabel>> \o v : v \in {<<>>, <<" ", "5">>, <<" ", "-", "3">>, <<" ", "x">>,
                                   <<"1", "2", "x">>, <<"3", ".", "5">>}}
AttitudeFields == {<<AttitudeLabel>> \o v : v \in {<<>>, <<" ">>, <<" ", "a">>}}
RelationshipFields == {<<RelationshipLabel>> \o v : v \in {<<>>, <<" ">>, <<" ", "r">>}}
Fields == FavourFields \cup AttitudeFields \cup RelationshipFields \cup {<<"x">>}
Separator == <<",", " ">>

RECURSIVE Join(_)
Join(fs) ==
    IF fs = <<>> THEN <<>>
    ELSE IF Len(fs) = 1 THEN fs[1]
    ELSE fs[1] \o Separator \o Join(Tail(fs))

Bodies == UNION {{Join(fs) : fs \in [1..n -> Fields]} : n \in 0..MaxFields}
\* a second block, after a first that is closed
SecondBlock == <<"[", FavourLabel, " ", "9", ",", " ", AttitudeLabel, " ", "z", "]">>
Texts ==
    {pre \o open \o body \o close \o post :
        pre \in {<<>>, <<"h", NL>>}, open \in {<<>>, <<"[">>}, body \in Bodies,
        close \in {<<>>, <<"]">>}, post \in {<<>>, <<NL>>}}
    \cup {<<"[">> \o body \o <<"]">> \o SecondBlock : body \in Bodies}

Senders == {<<"u">>}

InitResp ==
    /\ heap = <<>>
    /\ user_data = <<>>
    /\ disk = <<>>
    /\ DEFAULT_STATE = DEFAULT_STATE_literal
    /\ session_based \in BOOLEAN
    /\ held = 0
    /\ original_text = <<>>
    /\ completion_text = <<>>
    /\ turn = "pending"
    /\ last = Log("init", <<>>, <<>>, NoRecord, NoRecord, FALSE, "")
    /\ nops = 0

\* the commands run before the turn's text arrives
SetFavourBeforeTurn ==
    /\ turn = "pending"
    /\ UNCHANGED nops
    /\ \E u \in Senders, o \in Origins : admin_set_favour("admin", u, <<"5">>, o)
SetAttitudeBeforeTurn ==
    /\ turn = "pending"
    /\ UNCHANGED nops
    /\ \E u \in Senders, o \in Origins : admin_set_attitude("admin", u, <<"b">>, o)
SetRelationshipBeforeTurn ==
    /\ turn = "pending"
    /\ UNCHANGED nops
    /\ \E u \in Senders, o \in Origins :
           admin_set_relationship("admin", u, <<"q">>, o)
Turn ==
    /\ turn = "pending"
    /\ UNCHANGED nops
    /\ \E u \in Senders, o \in Origins, text \in Texts : on_llm_resp(u, o, text)

NextResp ==
    \/ SetFavourBeforeTurn
    \/ SetAttitudeBeforeTurn
    \/ SetRelationshipBeforeTurn
    \/ Turn

SpecResp == InitResp /\ [][NextResp]_vars

(***************************************************************************)
(* The commands of the administrators over a mapping loaded from           *)
(* user_data.json.  The file is one that earlier runs left behind: records *)
(* with int favour, a record update_user_state stored with a str favour,   *)
(* and a record stored from a dict that had no attitude and relationship.  *)
(***************************************************************************)
MaxCommands == 2

Stored(n) ==
    [favour |-> IntVal(n), attitude |-> StrVal(<<"a">>),
     relationship |-> StrVal(<<"r">>)]
\* the records that are not as the handlers store them
OddRecords ==
    {[Stored(0) EXCEPT !.favour = StrVal(<<"x">>)],
     [favour |-> IntVal(5), attitude |-> Missing, relationship |-> Missing]}
FileRecords == {Stored(-1), Stored(0)} \cup OddRecords
KeyOrders ==
    {<<<<"u">>, <<"s", "_", "u">>, <<"s", "_", "s", "_", "u">>>>,
     <<<<"s", "_", "s", "_", "u">>, <<"s", "_", "u">>, <<"u">>>>}
Files ==
    UNION {{[i \in 1..n |-> [key |-> ks[i], rec |-> recs[i]]] :
               ks \in KeyOrders,
               recs \in {r \in [1..n -> FileRecords] :
                           Cardinality({i \in 1..n : r[i] \in OddRecords}) <= 1}} :
           n \in 0..Cardinality(Users \X SessionIds) - 1}
Nums == {<<"1">>, <<"2">>, <<"0">>, <<"x">>}

InitAdmin ==
    /\ \E file \in Files :
          /\ disk = file
          /\ heap = load_data(file).heap
          /\ user_data = load_data(file).ud
    /\ DEFAULT_STATE = DEFAULT_STATE_literal
    /\ session_based \in BOOLEAN
    /\ held = 0
    /\ original_text = <<>>
    /\ completion_text = <<>>
    /\ turn = "done"
    /\ last = Log("init", <<>>, <<>>, NoRecord, NoRecord, FALSE, "")
    /\ nops = 0

\* one more command, while the run is shorter than MaxCommands
Command(A) == nops < MaxCommands /\ nops' = nops + 1 /\ A

QueryCommand ==
    Command(\E r \in Roles, u \in Users, o \in Origins : admin_query_status(r, u, o))
SetFavourCommand ==
    Command(\E r \in Roles, u \in Users, v \in FavourArgs, o \in Origins :
                admin_set_favour(r, u, v, o))
ResetUserCommand ==
    Command(\E r \in Roles, u \in Users, o \in Origins :
                admin_reset_user_status(r, u, o))
ResetNegativeCommand == Command(\E r \in Roles : admin_reset_negative_favour(r))
ResetAllCommand == Command(\E r \in Roles : admin_reset_all_users(r))
RankingCommand ==
    Command(\E r \in Roles, num \in Nums : admin_favour_ranking(r, num))
NegativeRankingCommand ==
    Command(\E r \in Roles, num \in Nums : admin_negative_favour_ranking(r, num))

NextAdmin ==
    \/ QueryCommand
    \/ SetFavourCommand
    \/ ResetUserCommand
    \/ ResetNegativeCommand
    \/ ResetAllCommand
    \/ RankingCommand
    \/ NegativeRankingCommand

SpecAdmin == InitAdmin /\ [][NextAdmin]_vars

(***************************************************************************)
(* The marker block and its fields, in the words of the specification      *)
(***************************************************************************)
\* the bracketed blocks of text holding a label: "[" to the first "]" after it
MarkerBlocks(text) ==
    {b \in (1..Len(text)) \X (1..Len(text)) :
        /\ b[1] < b[2]
        /\ text[b[1]] = "["
        /\ text[b[2]] = "]"
        /\ \A k \in (b[1] + 1)..(b[2] - 1) : text[k] # "]"
        /\ \E k \in (b[1] + 1)..(b[2] - 1) : text[k] \in Labels}
HasMarkerBlock(text) == MarkerBlocks(text) # {}
HasLabel(text) == \E i \in 1..Len(text) : text[i] \in Labels
Occurs(sub, text) ==
    \E i \in 0..(Len(text) - Len(sub)) : SubSeq(text, i + 1, i + Len(sub)) = sub
BlockLeft(text, shown) ==
    \E b \in MarkerBlocks(text) : Occurs(SubSeq(text, b[1], b[2]), shown)

\* what the first marker block holds between its brackets
BlockBody(text) ==
    LET b == CHOOSE b \in MarkerBlocks(text) :
                 \A c \in MarkerBlocks(text) : b[1] <= c[1]
    IN SubSeq(text, b[1] + 1, b[2] - 1)
LabelIn(body, label) == \E i \in 1..Len(body) : body[i] = label
\* the value of a label: what follows it up to the next label or the end of
\* the block, without the surrounding whitespace and separators
ValueIn(body, label) ==
    LET p == SetMin({i \in 1..Len(body) : body[i] = label})
        nexts == {q \in (p + 1)..Len(body) : body[q] \in Labels}
        e == IF nexts = {} THEN Len(body) ELSE SetMin(nexts) - 1
    IN StripSet(SubSeq(body, p + 1, e), {" ", NL, ",", FWComma})
LabelOf(field) ==
    CASE field = "favour" -> FavourLabel
      [] field = "attitude" -> AttitudeLabel
      [] field = "relationship" -> RelationshipLabel
FieldNames == {"favour", "attitude", "relationship"}
\* a field parses when its label is in the block with a signed integer
\* (favour) or a text that is not empty (attitude, relationship) as value
Parses(text, field) ==
    /\ HasMarkerBlock(text)
    /\ LabelIn(BlockBody(text), LabelOf(field))
    /\ IF field = "favour"
       THEN IntOfStr(ValueIn(BlockBody(text), FavourLabel)).ok
       ELSE ValueIn(BlockBody(text), LabelOf(field)) # <<>>
ParsedValue(text, field) ==
    IF field = "favour"
    THEN IntVal(IntOfStr(ValueIn(BlockBody(text), FavourLabel)).n)
    ELSE StrVal(ValueIn(BlockBody(text), LabelOf(field)))
EmptyValued(text, field) ==
    /\ HasMarkerBlock(text)
    /\ LabelIn(BlockBody(text), LabelOf(field))
    /\ ValueIn(BlockBody(text), LabelOf(field)) = <<>>

\* the record a get for the key returns, in the store (h, ud)
View(h, ud, key) == IF HasKey(ud, key) THEN h[RefOf(ud, key)] ELSE DEFAULT_STATE
\* the step on_llm_resp takes, and the key of the identity it was run for
TurnStep == turn = "pending" /\ turn' = "done"
TurnKey == KeyOf(last'.user, last'.session)
TurnDone == turn = "done" /\ last.op = "on_llm_resp"

(***************************************************************************)
(* C1: when the text given to on_llm_resp holds a marker block, the text   *)
(* it leaves behind no longer holds that block, whatever the fields parse  *)
(* to.                                                                     *)
(***************************************************************************)
C1_BlockNeverShown ==
    TurnDone => ~BlockLeft(original_text, completion_text)

(***************************************************************************)
(* C2: the merge is per field: after on_llm_resp has processed a marker    *)
(* block, each field of the identity's record is the value parsed from the *)
(* block if the field parsed, and the value held before the turn if not.   *)
(***************************************************************************)
C2_MergePerField ==
    [][TurnStep /\ HasMarkerBlock(original_text')
         => \A f \in FieldNames :
               View(heap', user_data', TurnKey)[f] =
                   IF Parses(original_text', f) THEN ParsedValue(original_text', f)
                   ELSE View(heap, user_data, TurnKey)[f]]_vars

(***************************************************************************)
(* C3: on text without a marker block on_llm_resp does nothing: the text   *)
(* is left as it was, the mapping is unchanged and nothing is written.     *)
(***************************************************************************)
C3_NoBlockNoOp ==
    [][TurnStep /\ ~HasMarkerBlock(original_text')
         => /\ completion_text' = original_text'
            /\ UNCHANGED <<heap, user_data, disk>>
            /\ ~last'.wrote]_vars
C3_Witness ==
    /\ TurnDone
    /\ ~HasMarkerBlock(original_text)
    /\ HasLabel(original_text)
    /\ Occurs(<<"]">>, original_text)
    /\ user_data # <<>>

(***************************************************************************)
(* C4: when a marker block is found and none of the three fields parses,   *)
(* the block is stripped from the text and the store is untouched: no key  *)
(* added, no record changed, nothing written.                              *)
(***************************************************************************)
C4_NothingParsedStripsOnly ==
    [][TurnStep /\ HasMarkerBlock(original_text')
                /\ (\A f \in FieldNames : ~Parses(original_text', f))
         => /\ ~BlockLeft(original_text', completion_text')
            /\ UNCHANGED <<heap, user_data, disk>>
            /\ ~last'.wrote]_vars

(***************************************************************************)
(* C5: when the Favour label of a marker block is followed by something    *)
(* that is no signed integer, the stored favour stays what it was, and an  *)
(* Attitude or Relationship field of the same block is still applied.      *)
(***************************************************************************)
C5_BadFavourKeepsOthers ==
    [][TurnStep /\ HasMarkerBlock(original_text')
                /\ LabelIn(BlockBody(original_text'), FavourLabel)
                /\ ~Parses(original_text', "favour")
         => /\ View(heap', user_data', TurnKey).favour =
                   View(heap, user_data, TurnKey).favour
            /\ \A f \in {"attitude", "relationship"} :
                   Parses(original_text', f) =>
                       View(heap', user_data', TurnKey)[f] =
                           ParsedValue(original_text', f)]_vars

Identities == Users \X SessionIds
\* the key of the operation the step ran
OpKey == KeyOf(last'.user, last'.session)
\* the handlers and calls that write the record of one identity
IdentityWrites ==
    {"admin_set_favour", "admin_set_attitude", "admin_set_relationship",
     "admin_reset_user_status", "update_user_state", "on_llm_resp"}
GetStep == last'.op = "get_user_state"
PutStep == last'.op = "update_user_state"
\* the favour user_data.json holds for the key, the default's if it holds none
PersistedFavour(key) ==
    IF \E i \in 1..Len(disk) : disk[i].key = key
    THEN disk[CHOOSE i \in 1..Len(disk) : disk[i].key = key].rec.favour
    ELSE DEFAULT_STATE.favour

(***************************************************************************)
(* C7: identity keys never collide: an update for one (user, session)      *)
(* identity, in global or in session-scoped mode, never changes the record *)
(* read for another identity.                                              *)
(***************************************************************************)
C7_KeysNeverCollide ==
    [][last'.wrote /\ last'.op \in IdentityWrites
         => \A id \in Identities :
               id # <<last'.user, last'.session>>
                  => View(heap', user_data', KeyOf(id[1], id[2])) =
                         View(heap, user_data, KeyOf(id[1], id[2]))]_vars

(***************************************************************************)
(* C8: get_user_state for a key not in the mapping returns the default     *)
(* configured when it is called and does not add the key; a change of the  *)
(* configured default changes no record already stored.                    *)
(***************************************************************************)
C8_AbsentKeyGetsDefault ==
    [][/\ GetStep /\ ~HasKey(user_data, OpKey)
            => /\ last'.ret = DEFAULT_STATE
               /\ Dump(user_data', heap') = Dump(user_data, heap)
               /\ disk' = disk
       /\ DEFAULT_STATE' # DEFAULT_STATE
            => /\ disk' = disk
               /\ Dump(user_data', heap') = disk]_vars
C8_Witness ==
    /\ last.op = "get_user_state"
    /\ ~HasKey(user_data, KeyOf(last.user, last.session))
    /\ user_data # <<>>
    /\ DEFAULT_STATE # DEFAULT_STATE_literal
    /\ last.ret = DEFAULT_STATE

C10_BadFavourFallsBack ==
    [][PutStep /\ ~PyInt(last'.arg.favour).ok
         => /\ HasKey(user_data', OpKey)
            /\ View(heap', user_data', OpKey) =
                   [last'.arg EXCEPT !.favour = PersistedFavour(OpKey)]]_vars

(***************************************************************************)
(* The records at rest and the commands over them                          *)
(***************************************************************************)
FieldsOf(rec) == {f \in FieldNames : rec[f].k # "missing"}
Complete(rec) == FieldsOf(rec) = FieldNames
\* the mapping as it is in memory, in the order of insertion
Mapping == Dump(user_data, heap)
\* the last operation called get_user_state and has what it returned
Returned ==
    \/ last.op = "get_user_state"
    \/ last.op = "admin_query_status" /\ last.reply # "denied"

(***************************************************************************)
(* C11: every record get_user_state returns has the three fields favour,   *)
(* attitude and relationship, also when the record stored (loaded from the *)
(* file, or put) lacks some: the default stands in for a missing field.    *)
(***************************************************************************)
C11_ReturnedRecordComplete ==
    Returned => Complete(last.ret)

(***************************************************************************)
(* C12: after every turn, put, set-favour command and reset the favour of   *)
(* every record, in memory and in user_data.json, is an integer.           *)
(***************************************************************************)
FavourWrites ==
    {"on_llm_resp", "update_user_state", "admin_set_favour",
     "admin_reset_user_status", "admin_reset_negative_favour",
     "admin_reset_all_users"}
C12_FavourIsInteger ==
    last.op \in FavourWrites
        => /\ \A i \in 1..Len(Mapping) : Mapping[i].rec.favour.k = "int"
           /\ \A i \in 1..Len(disk) : disk[i].rec.favour.k = "int"

(***************************************************************************)
(* C13: write-through: when an operation that mutates the mapping returns, *)
(* and when terminate returns, user_data.json holds the whole mapping of   *)
(* the memory, and a manager constructed over that file reads for every    *)
(* identity the record the memory held.                                    *)
(***************************************************************************)
Mutators ==
    IdentityWrites \cup {"admin_reset_negative_favour", "admin_reset_all_users"}
\* the operation of the step changed the mapping, or said it wrote it
MutatingStep ==
    /\ last'.op \in Mutators
    /\ last'.wrote \/ Dump(user_data', heap') # Dump(user_data, heap)
SameReads(h1, ud1, h2, ud2) ==
    \A id \in Identities :
        View(h1, ud1, KeyOf(id[1], id[2])) = View(h2, ud2, KeyOf(id[1], id[2]))
C13_WriteThrough ==
    [][/\ MutatingStep \/ last'.op = "terminate"
            => /\ disk' = Dump(user_data', heap')
               /\ SameReads(load_data(disk').heap, load_data(disk').ud,
                            heap', user_data')
       /\ last'.op = "plugin_init" /\ disk = Dump(user_data, heap)
            => Dump(user_data', heap') = Dump(user_data, heap)]_vars
C13_Witness ==
    /\ last.op = "plugin_init"
    /\ Len(user_data) >= 2
    /\ disk = Dump(user_data, heap)

(***************************************************************************)
(* C14: a command that is rejected (the sender is no administrator, the    *)
(* favour given to set-favour is no integer, the count given to a ranking  *)
(* is no positive integer) replies with a message and leaves the mapping   *)
(* and user_data.json as they were.                                        *)
(***************************************************************************)
AdminCommands ==
    {"admin_query_status", "admin_set_favour", "admin_set_attitude",
     "admin_set_relationship", "admin_reset_user_status",
     "admin_reset_negative_favour", "admin_reset_all_users",
     "admin_favour_ranking", "admin_negative_favour_ranking"}
Rankings == {"admin_favour_ranking", "admin_negative_favour_ranking"}
BadCount(num) == ~IntOfStr(num).ok \/ IntOfStr(num).n <= 0
Rejections == {"denied", "not an integer", "not a positive integer"}
RejectedStep ==
    /\ last'.op \in AdminCommands
    /\ \/ last'.role # "admin"
       \/ last'.op = "admin_set_favour" /\ last'.reply = "not an integer"
       \/ last'.op \in Rankings /\ BadCount(last'.typed)
C14_RejectedChangesNothing ==
    [][RejectedStep
         => /\ last'.reply \in Rejections
            /\ UNCHANGED <<heap, user_data, disk>>
            /\ ~last'.wrote]_vars
C14_Witness ==
    /\ last.op \in Rankings
    /\ last.role = "admin"
    /\ last.typed = <<"0">>
    /\ last.reply = "not a positive integer"
    /\ Len(user_data) >= 2

(***************************************************************************)
(* C15: a ranking is a stable sort cut to N: the top-N command lists the   *)
(* first N records by favour descending, the bottom-N command the first N  *)
(* by favour ascending, records of equal favour in the order their keys    *)
(* were inserted; the mapping is left as it was.                           *)
(***************************************************************************)
RankingStep ==
    /\ last'.op \in Rankings
    /\ last'.role = "admin"
    /\ ~BadCount(last'.typed)
    /\ user_data # <<>>
\* items[i] comes before items[j] in the ranking
Ahead(items, i, j, descending) ==
    LET a == items[i].rec.favour
        b == items[j].rec.favour
    IN /\ a.k = "int" /\ b.k = "int"
       /\ \/ IF descending THEN a.n > b.n ELSE a.n < b.n
          \/ a.n = b.n /\ i < j
IsRanking(listed, items, descending, N) ==
    LET Listed == {i \in 1..Len(items) : \E p \in 1..Len(listed) : listed[p] = items[i]}
        At(p) == CHOOSE i \in 1..Len(items) : items[i] = listed[p]
    IN /\ Len(listed) = IF N < Len(items) THEN N ELSE Len(items)
       /\ Cardinality(Listed) = Len(listed)
       /\ \A p, q \in 1..Len(listed) : p < q => Ahead(items, At(p), At(q), descending)
       /\ \A i \in Listed, j \in (1..Len(items)) \ Listed : Ahead(items, i, j, descending)
C15_RankingStableTopN ==
    [][RankingStep
         => /\ IsRanking(last'.listed, Mapping, last'.op = "admin_favour_ranking",
                         IntOfStr(last'.typed).n)
            /\ UNCHANGED <<heap, user_data, disk>>]_vars

(***************************************************************************)
(* C19: reset-negative, run by an administrator, resets exactly the        *)
(* records with favour below zero: a get for each of them returns the      *)
(* configured default, the other records are unchanged, no key is added    *)
(* and the file holds the result; with no negative record nothing is       *)
(* changed and nothing is written.                                         *)
(***************************************************************************)
ResetNegativeStep ==
    last'.op = "admin_reset_negative_favour" /\ last'.role = "admin"
Negative(rec) == rec.favour.k = "int" /\ rec.favour.n < 0
C19_ResetNegativeExactly ==
    [][ResetNegativeStep
         => LET before == Dump(user_data, heap)
                after == Dump(user_data', heap')
            IN /\ Len(after) = Len(before)
               /\ \A i \in 1..Len(before) :
                     /\ after[i].key = before[i].key
                     /\ after[i].rec = IF Negative(before[i].rec) THEN DEFAULT_STATE
                                       ELSE before[i].rec
               /\ IF \E i \in 1..Len(before) : Negative(before[i].rec)
                  THEN disk' = after
                  ELSE UNCHANGED <<heap, user_data, disk>> /\ ~last'.wrote]_vars

(***************************************************************************)
(* C16: the locate step asks of a candidate block only that a label is in  *)
(* it: a block is located, and so stripped, when only one or two fields    *)
(* are present, when the label is not the first thing after the opening    *)
(* bracket and when the closing bracket is missing.                        *)
(***************************************************************************)
\* an opening bracket with a label after it, closed or not
Candidate(text) ==
    \E i \in 1..Len(text) : \E j \in (i + 1)..Len(text) :
        /\ text[i] = "["
        /\ text[j] \in Labels
        /\ \A k \in (i + 1)..(j - 1) : text[k] # "]"
C16_CandidateIsLocated ==
    [][TurnStep /\ Candidate(original_text')
         => completion_text' # original_text']_vars

(***************************************************************************)
(* C17: the fields are parsed whatever the order of the labels: for a      *)
(* block with an Attitude and a Relationship field, written in one order   *)
(* or the other, the attitude and the relationship stored after the turn   *)
(* are the two values, each ending at the next label or at the end of the  *)
(* block.                                                                  *)
(***************************************************************************)
C17_LabelOrderIndependent ==
    [][TurnStep /\ Parses(original_text', "attitude")
                /\ Parses(original_text', "relationship")
         => /\ View(heap', user_data', TurnKey).attitude =
                   ParsedValue(original_text', "attitude")
            /\ View(heap', user_data', TurnKey).relationship =
                   ParsedValue(original_text', "relationship")]_vars

(***************************************************************************)
(* C18: of several marker blocks in one reply the first alone decides the  *)
(* update: each field of the record stored after the turn is the value of  *)
(* the first block if the field parses there and the value held before if  *)
(* not, never a value that only a later block holds.                       *)
(***************************************************************************)
\* two marker blocks, one after the other
SeveralBlocks(text) ==
    \E b, c \in MarkerBlocks(text) : b[2] < c[1]
C18_FirstBlockDecides ==
    [][TurnStep /\ SeveralBlocks(original_text')
         => \A f \in FieldNames :
               View(heap', user_data', TurnKey)[f] =
                   IF Parses(original_text', f) THEN ParsedValue(original_text', f)
                   ELSE View(heap, user_data, TurnKey)[f]]_vars

(***************************************************************************)
(* C20: the record get_user_state returns is a snapshot: when the caller   *)
(* assigns to it and does not call update_user_state, the mapping, the     *)
(* file and the configured default stay as they were, for a key that is in *)
(* the mapping and for one that is not.                                    *)
(***************************************************************************)
AssignStep == last'.op = "assign"
C20_ReturnedRecordIsSnapshot ==
    [][AssignStep
         => /\ Dump(user_data', heap') = Dump(user_data, heap)
            /\ disk' = disk
            /\ DEFAULT_STATE' = DEFAULT_STATE]_vars
====
